---- MODULE Spec2Model ----
(***************************************************************************)
(* plotters-layout: the chart layout descriptor (ChartLayout), the bound   *)
(* layout (ChartLayoutBuilder) and centering_ranges.                       *)
(*                                                                         *)
(* A u32 is kept at its full width.  TLC's integers stop at 2^31 - 1, so a *)
(* u32 is the pair <<hi, lo>> of its two 16-bit halves and the arithmetic  *)
(* of the source (+, -, <, /2, min, casts) is done on the halves, with the *)
(* carry out of bit 31 reported: Rust panics on it when the crate is built *)
(* with overflow checks (debug, cargo test) and wraps when it is built     *)
(* without (release).  The variable overflow_checks is that build setting. *)
(***************************************************************************)
EXTENDS Integers, Sequences, FiniteSets, TLC

VARIABLES
    overflow_checks,  \* the build: TRUE panics on integer overflow, FALSE wraps
    layout,           \* the ChartLayout the caller holds
    builder,          \* the ChartLayoutBuilder returned by the last bind, or NoBuilder
    surface,          \* the root drawing area given to the last bind, or NoSurface
    ret,              \* the last call and what it returned
    cr                \* centering_ranges: its arguments and its result

vars == <<overflow_checks, layout, builder, surface, ret, cr>>

(***************************************************************************)
(* u32 and i32 arithmetic                                                  *)
(***************************************************************************)
Half == 2^16

U32(n) == <<n \div Half, n % Half>>

U32_ZERO == <<0, 0>>

U32_MAX == <<Half - 1, Half - 1>>

U32Lt(a, b) == a[1] < b[1] \/ (a[1] = b[1] /\ a[2] < b[2])

U32Le(a, b) == a = b \/ U32Lt(a, b)

U32Min(a, b) == IF U32Lt(b, a) THEN b ELSE a

\* a + b modulo 2^32
WrappingAdd(a, b) ==
    LET lo == a[2] + b[2]
        hi == a[1] + b[1] + (lo \div Half)
    IN  <<hi % Half, lo % Half>>

\* whether a + b leaves the u32 range
AddOverflows(a, b) == a[1] + b[1] + ((a[2] + b[2]) \div Half) >= Half

\* a - b modulo 2^32
WrappingSub(a, b) ==
    LET lo == a[2] - b[2]
        hi == a[1] - b[1] - (IF lo < 0 THEN 1 ELSE 0)
    IN  <<hi % Half, lo % Half>>

SubOverflows(a, b) == U32Lt(a, b)

\* a / 2
U32Div2(a) == <<a[1] \div 2, ((a[1] % 2) * (Half \div 2)) + (a[2] \div 2)>>

\* A value computed by u32 arithmetic: val is the result modulo 2^32 and ovf
\* tells whether some step left the u32 range (a panic under overflow checks).
Exact(a) == [val |-> a, ovf |-> FALSE]

Plus(x, b) == [val |-> WrappingAdd(x.val, b), ovf |-> x.ovf \/ AddOverflows(x.val, b)]

Minus(x, b) == [val |-> WrappingSub(x.val, b), ovf |-> x.ovf \/ SubOverflows(x.val, b)]

MaxI32 == 2147483647

MinI32 == (-2147483647) - 1

\* n as u32, for an i32 n
I32AsU32(n) ==
    IF n >= 0 THEN U32(n)
    ELSE LET m == (n + 2147483647) + 1
         IN  <<(Half \div 2) + (m \div Half), m % Half>>

\* whether a - b leaves the i32 range
I32SubOverflows(a, b) ==
    \/ b < 0 /\ a > MaxI32 + b
    \/ b > 0 /\ a < MinI32 + b

\* (a - b) as u32, for i32 a and b
I32SubAsU32(a, b) ==
    [val |-> WrappingSub(I32AsU32(a), I32AsU32(b)), ovf |-> I32SubOverflows(a, b)]

(***************************************************************************)
(* ChartLayout                                                             *)
(***************************************************************************)
INDEX_TOP == 0

INDEX_BOTTOM == 1

INDEX_LEFT == 2

INDEX_RIGHT == 3

Sides == {INDEX_TOP, INDEX_BOTTOM, INDEX_LEFT, INDEX_RIGHT}

\* [top, bottom, left, right]
Array4(top, bottom, left, right) ==
    [i \in Sides |-> CASE i = INDEX_TOP -> top
                       [] i = INDEX_BOTTOM -> bottom
                       [] i = INDEX_LEFT -> left
                       [] OTHER -> right]

NoContent == [some |-> FALSE]

SomeContent(text, style, y_padding) ==
    [some |-> TRUE, text |-> text, style |-> style, y_padding |-> y_padding]

new ==
    [label_area_size |-> Array4(U32_ZERO, U32_ZERO, U32_ZERO, U32_ZERO),
     title_height |-> U32_ZERO,
     title_content |-> NoContent,
     margin |-> Array4(U32_ZERO, U32_ZERO, U32_ZERO, U32_ZERO)]

set_all_label_area_size(self, top, bottom, left, right) ==
    [self EXCEPT !.label_area_size = Array4(top, bottom, left, right)]

x_label_area_size(self, size) ==
    [self EXCEPT !.label_area_size[INDEX_BOTTOM] = size]

y_label_area_size(self, size) ==
    [self EXCEPT !.label_area_size[INDEX_LEFT] = size]

top_x_label_area_size(self, size) ==
    [self EXCEPT !.label_area_size[INDEX_TOP] = size]

right_y_label_area_size(self, size) ==
    [self EXCEPT !.label_area_size[INDEX_RIGHT] = size]

set_all_margin(self, top, bottom, left, right) ==
    [self EXCEPT !.margin = Array4(top, bottom, left, right)]

margin(self, size) ==
    [self EXCEPT !.margin = Array4(size, size, size, size)]

margin_top(self, size) == [self EXCEPT !.margin[INDEX_TOP] = size]

margin_bottom(self, size) == [self EXCEPT !.margin[INDEX_BOTTOM] = size]

margin_left(self, size) == [self EXCEPT !.margin[INDEX_LEFT] = size]

margin_right(self, size) == [self EXCEPT !.margin[INDEX_RIGHT] = size]

no_caption_keeps_height(self) == [self EXCEPT !.title_content = NoContent]

no_caption(self) ==
    [self EXCEPT !.title_height = U32_ZERO, !.title_content = NoContent]

\* What font.layout_box(text) answers: a FontError, or the box
\* <<<<x0, y0>>, <<x1, y1>>>> in i32 pixels.
LayoutBoxErr == [ok |-> FALSE]

LayoutBoxOk(x0, y0, x1, y1) == [ok |-> TRUE, box |-> <<<<x0, y0>>, <<x1, y1>>>>]

\* Result<(u32, u32), FontError>, each component with its overflow flag
estimate_text_size(text_layout) ==
    IF ~text_layout.ok
    THEN [ok |-> FALSE]
    ELSE [ok |-> TRUE,
          w |-> I32SubAsU32(text_layout.box[2][1], text_layout.box[1][1]),
          h |-> I32SubAsU32(text_layout.box[2][2], text_layout.box[1][2])]

PaddingCap == 5

\* The outcome of caption(): kind is "err" (FontError), "panic" (an overflow under
\* overflow checks) or "ok", and self is the descriptor afterwards.
caption(self, oc, text, font, text_layout) ==
    LET size == estimate_text_size(text_layout)
    IN  IF ~size.ok THEN [kind |-> "err", self |-> self]
        ELSE IF oc /\ (size.w.ovf \/ size.h.ovf) THEN [kind |-> "panic", self |-> self]
        ELSE LET text_h == size.h.val
                 y_padding == U32Min(U32Div2(text_h), U32(PaddingCap))
                 \* y_padding * 2 cannot overflow: y_padding <= 5
                 height == Plus(Exact(WrappingAdd(y_padding, y_padding)), text_h)
             IN  IF oc /\ height.ovf THEN [kind |-> "panic", self |-> self]
                 ELSE [kind |-> "ok",
                       self |-> [self EXCEPT
                                   !.title_height = height.val,
                                   !.title_content = SomeContent(text, font, y_padding)]]

replace_caption_always_stores(self, text) ==
    [self EXCEPT !.title_content =
        IF self.title_content.some
        THEN SomeContent(text, self.title_content.style, self.title_content.y_padding)
        ELSE SomeContent(text, <<"sans-serif", 0>>, U32_ZERO)]

replace_caption(self, text) ==
    IF self.title_content.some
    THEN [self EXCEPT !.title_content =
              SomeContent(text, self.title_content.style, self.title_content.y_padding)]
    ELSE self

\* additional.0 and additional.1, each with its overflow flag
additional_sizes(self) ==
    LET m == self.margin
        l == self.label_area_size
        width == Plus(Plus(Plus(Exact(m[INDEX_LEFT]), m[INDEX_RIGHT]),
                           l[INDEX_LEFT]), l[INDEX_RIGHT])
        height == Plus(Plus(Plus(Plus(Exact(self.title_height), m[INDEX_TOP]),
                                 m[INDEX_BOTTOM]), l[INDEX_TOP]), l[INDEX_BOTTOM])
    IN  <<width, height>>

\* What a call returned: kind "ok" with its value, "err" (an Err of the call's
\* Result) or "panic".  wrapped tells that the value was computed by arithmetic
\* that left the u32 range and wrapped (a build without overflow checks).
Ok(val) == [kind |-> "ok", val |-> val, wrapped |-> FALSE]

Err(e) == [kind |-> "err", val |-> e, wrapped |-> FALSE]

Panic == [kind |-> "panic", val |-> "overflow", wrapped |-> FALSE]

Computed(oc, val, ovf) ==
    IF ovf /\ oc THEN Panic ELSE [kind |-> "ok", val |-> val, wrapped |-> ovf]

desired_image_size(self, oc, plot_size) ==
    LET additional == additional_sizes(self)
        w == Plus(Exact(plot_size[1]), additional[1].val)
        h == Plus(Exact(plot_size[2]), additional[2].val)
    IN  Computed(oc, <<w.val, h.val>>,
                 additional[1].ovf \/ additional[2].ovf \/ w.ovf \/ h.ovf)

\* An f64 aspect ratio is the fraction num / den with den a power of two that
\* divides 2^16 and |num| < 2^21: for these the f64 product with a u32 is exact.
Ratio(num, den) == [num |-> num, den |-> den]

\* (d as f64 * aspect_ratio) as u32: the cast truncates toward zero and
\* saturates at 0 and at u32::MAX
F64MulAsU32(d, aspect_ratio) ==
    IF aspect_ratio.num <= 0 THEN U32_ZERO
    ELSE LET hn == d[1] * aspect_ratio.num
             top == hn \div aspect_ratio.den
             low == ((hn % aspect_ratio.den) * (Half \div aspect_ratio.den))
                      + ((d[2] * aspect_ratio.num) \div aspect_ratio.den)
             hi == top + (low \div Half)
         IN  IF hi >= Half THEN U32_MAX ELSE <<hi, low % Half>>

desired_image_height_from_width(self, oc, image_width, aspect_ratio) ==
    LET additional == additional_sizes(self)
        ovf0 == additional[1].ovf \/ additional[2].ovf
    IN  IF U32Lt(image_width, additional[1].val)
        THEN Computed(oc, additional[2].val, ovf0)
        ELSE LET plot_h == F64MulAsU32(WrappingSub(image_width, additional[1].val),
                                       aspect_ratio)
                 h == Plus(Exact(plot_h), additional[2].val)
             IN  Computed(oc, h.val, ovf0 \/ h.ovf)

(***************************************************************************)
(* The drawing surface (plotters' DrawingArea) and chart builder, as the   *)
(* layout code uses them.                                                  *)
(***************************************************************************)
\* A drawing area of w x h pixels
Area(w, h) == [w |-> w, h |-> h]

dim_in_pixel(area) == <<area.w, area.h>>

\* The two areas above and below the line y, for y no greater than the height
split_vertically(area, y) ==
    <<Area(area.w, y), Area(area.w, WrappingSub(area.h, y))>>

\* The pixel size of the plotting area of the chart that ChartBuilder builds on
\* `area` with the four margins and four label area sizes it was given: what is
\* left of the area inside the margins and the label areas.
ChartBuilder_plotting_area(area, b_margin, b_label) ==
    <<WrappingSub(WrappingSub(WrappingSub(WrappingSub(area.w,
          b_margin[INDEX_LEFT]), b_margin[INDEX_RIGHT]),
          b_label[INDEX_LEFT]), b_label[INDEX_RIGHT]),
      WrappingSub(WrappingSub(WrappingSub(WrappingSub(area.h,
          b_margin[INDEX_TOP]), b_margin[INDEX_BOTTOM]),
          b_label[INDEX_TOP]), b_label[INDEX_BOTTOM])>>

\* A valid margin/label configuration: the area holds its margins and label
\* areas on both axes (the sums taken in the integers, not in u32)
FitsAxis(total, a, b, c, d) ==
    /\ ~AddOverflows(a, b)
    /\ ~AddOverflows(WrappingAdd(a, b), c)
    /\ ~AddOverflows(WrappingAdd(WrappingAdd(a, b), c), d)
    /\ U32Le(WrappingAdd(WrappingAdd(WrappingAdd(a, b), c), d), total)

BandsFit(area, b_margin, b_label) ==
    /\ FitsAxis(area.w, b_margin[INDEX_LEFT], b_margin[INDEX_RIGHT],
                b_label[INDEX_LEFT], b_label[INDEX_RIGHT])
    /\ FitsAxis(area.h, b_margin[INDEX_TOP], b_margin[INDEX_BOTTOM],
                b_label[INDEX_TOP], b_label[INDEX_BOTTOM])

(***************************************************************************)
(* bind and ChartLayoutBuilder                                             *)
(***************************************************************************)
NoBuilder == [bound |-> FALSE]

\* The outcome of bind on a root area: the builder, or the error of draw_text;
\* drawn is the draw_text call made on the title area, if any.
bind(self, root_area, draw_ok) ==
    LET title_area_height == self.title_height
        parts == split_vertically(root_area, title_area_height)
        draws == U32Lt(U32_ZERO, title_area_height) /\ self.title_content.some
        x_padding == U32Div2(dim_in_pixel(parts[1])[1])
        drawn == IF draws
                 THEN <<[text |-> self.title_content.text,
                         style |-> self.title_content.style,
                         pos |-> <<x_padding, self.title_content.y_padding>>]>>
                 ELSE <<>>
        main_area == IF U32Lt(U32_ZERO, title_area_height) THEN parts[2] ELSE root_area
    IN  IF draws /\ ~draw_ok
        THEN [kind |-> "err", drawn |-> <<>>, builder |-> NoBuilder]
        ELSE [kind |-> "ok", drawn |-> drawn,
              builder |-> [bound |-> TRUE, layout |-> self, main_area |-> main_area]]

estimate_plot_area_size(b, oc) ==
    LET m == b.layout.margin
        l == b.layout.label_area_size
        image == dim_in_pixel(b.main_area)
        bands_w == Plus(Plus(Plus(Exact(m[INDEX_LEFT]), m[INDEX_RIGHT]),
                             l[INDEX_LEFT]), l[INDEX_RIGHT])
        plot_width == Minus([val |-> image[1], ovf |-> bands_w.ovf], bands_w.val)
        bands_h == Plus(Plus(Plus(Exact(m[INDEX_TOP]), m[INDEX_BOTTOM]),
                             l[INDEX_TOP]), l[INDEX_BOTTOM])
        plot_height == Minus([val |-> image[2], ovf |-> bands_h.ovf], bands_h.val)
    IN  Computed(oc, <<plot_width.val, plot_height.val>>,
                 plot_width.ovf \/ plot_height.ovf)

build_cartesian_2d_margins_swapped(b, x_spec, y_spec, backend_ok) ==
    LET m == b.layout.margin
        l == b.layout.label_area_size
        b_margin == Array4(m[INDEX_LEFT], m[INDEX_BOTTOM], m[INDEX_TOP], m[INDEX_RIGHT])
        b_label == Array4(l[INDEX_TOP], l[INDEX_BOTTOM], l[INDEX_LEFT], l[INDEX_RIGHT])
    IN  IF ~backend_ok THEN Err("DrawingAreaErrorKind")
        ELSE Ok([plotting_area |-> ChartBuilder_plotting_area(b.main_area, b_margin, b_label),
                 x_spec |-> x_spec, y_spec |-> y_spec])

\* The ChartContext, as its plotting area's pixel size and its two ranges, or the
\* backend's error
build_cartesian_2d(b, x_spec, y_spec, backend_ok) ==
    LET m == b.layout.margin
        l == b.layout.label_area_size
        b_margin == Array4(m[INDEX_TOP], m[INDEX_BOTTOM], m[INDEX_LEFT], m[INDEX_RIGHT])
        b_label == Array4(l[INDEX_TOP], l[INDEX_BOTTOM], l[INDEX_LEFT], l[INDEX_RIGHT])
    IN  IF ~backend_ok THEN Err("DrawingAreaErrorKind")
        ELSE Ok([plotting_area |-> ChartBuilder_plotting_area(b.main_area, b_margin, b_label),
                 x_spec |-> x_spec, y_spec |-> y_spec])

(***************************************************************************)
(* centering_ranges, with T an exact field: a value of T is the fraction   *)
(* <<num, den>> in lowest terms with den > 0.                              *)
(***************************************************************************)
RECURSIVE Gcd(_, _)
Gcd(a, b) == IF b = 0 THEN a ELSE Gcd(b, a % b)

Abs(n) == IF n < 0 THEN -n ELSE n

Frac(n, d) ==
    LET g == Gcd(Abs(n), Abs(d))
        s == IF d < 0 THEN -1 ELSE 1
    IN  <<(s * n) \div g, (s * d) \div g>>

TAdd(a, b) == Frac((a[1] * b[2]) + (b[1] * a[2]), a[2] * b[2])

TSub(a, b) == Frac((a[1] * b[2]) - (b[1] * a[2]), a[2] * b[2])

TMul(a, b) == Frac(a[1] * b[1], a[2] * b[2])

TDiv(a, b) == Frac(a[1] * b[2], a[2] * b[1])

TLt(a, b) == a[1] * b[2] < b[1] * a[2]

\* S: Into<T>, for an integer pixel count
IntoT(s) == Frac(s, 1)

Range(start, end) == [start |-> start, end |-> end]

\* the radius not halved
centering_ranges_no_half(minimum, destination) ==
    LET sx == TSub(minimum[1].end, minimum[1].start)
        sy == TSub(minimum[2].end, minimum[2].start)
        dx == IntoT(destination[1])
        dy == IntoT(destination[2])
        half == TDiv(dx, TAdd(dx, dx))
    IN  IF TLt(TMul(sx, dy), TMul(sy, dx))
        THEN LET radius == TDiv(TMul(sy, dx), dy)
                 center == TMul(TAdd(minimum[1].start, minimum[1].end), half)
             IN  <<Range(TSub(center, radius), TAdd(radius, center)), minimum[2]>>
        ELSE LET radius == TDiv(TMul(sx, dy), dx)
                 center == TMul(TAdd(minimum[2].end, minimum[2].start), half)
             IN  <<minimum[1], Range(TSub(center, radius), TAdd(radius, center))>>

\* the comparison turned round
centering_ranges_flipped(minimum, destination) ==
    LET sx == TSub(minimum[1].end, minimum[1].start)
        sy == TSub(minimum[2].end, minimum[2].start)
        dx == IntoT(destination[1])
        dy == IntoT(destination[2])
        half == TDiv(dx, TAdd(dx, dx))
    IN  IF TLt(TMul(sy, dx), TMul(sx, dy))
        THEN LET radius == TMul(TDiv(TMul(sy, dx), dy), half)
                 center == TMul(TAdd(minimum[1].start, minimum[1].end), half)
             IN  <<Range(TSub(center, radius), TAdd(radius, center)), minimum[2]>>
        ELSE LET radius == TMul(TDiv(TMul(sx, dy), dx), half)
                 center == TMul(TAdd(minimum[2].end, minimum[2].start), half)
             IN  <<minimum[1], Range(TSub(center, radius), TAdd(radius, center))>>

\* the new Y span taken from the Y span instead of the X span
centering_ranges_from_sy(minimum, destination) ==
    LET sx == TSub(minimum[1].end, minimum[1].start)
        sy == TSub(minimum[2].end, minimum[2].start)
        dx == IntoT(destination[1])
        dy == IntoT(destination[2])
        half == TDiv(dx, TAdd(dx, dx))
    IN  IF TLt(TMul(sx, dy), TMul(sy, dx))
        THEN LET radius == TMul(TDiv(TMul(sy, dx), dy), half)
                 center == TMul(TAdd(minimum[1].start, minimum[1].end), half)
             IN  <<Range(TSub(center, radius), TAdd(radius, center)), minimum[2]>>
        ELSE LET radius == TMul(TDiv(TMul(sy, dy), dx), half)
                 center == TMul(TAdd(minimum[2].end, minimum[2].start), half)
             IN  <<minimum[1], Range(TSub(center, radius), TAdd(radius, center))>>

centering_ranges(minimum, destination) ==
    LET sx == TSub(minimum[1].end, minimum[1].start)
        sy == TSub(minimum[2].end, minimum[2].start)
        dx == IntoT(destination[1])
        dy == IntoT(destination[2])
        half == TDiv(dx, TAdd(dx, dx))
    IN  IF TLt(TMul(sx, dy), TMul(sy, dx))
        THEN LET radius == TMul(TDiv(TMul(sy, dx), dy), half)
                 center == TMul(TAdd(minimum[1].start, minimum[1].end), half)
                 s0 == Range(TSub(center, radius), TAdd(radius, center))
             IN  <<s0, minimum[2]>>
        ELSE LET radius == TMul(TDiv(TMul(sx, dy), dx), half)
                 center == TMul(TAdd(minimum[2].end, minimum[2].start), half)
                 s1 == Range(TSub(center, radius), TAdd(radius, center))
             IN  <<minimum[1], s1>>

(***************************************************************************)
(* Inputs                                                                  *)
(***************************************************************************)
Big == <<Half \div 2, 0>>     \* 2^31

\* sizes given to the margin setters and to the label area setters
MarginSizes == {U32(4), Big}

LabelSizes == {U32(40)}

\* <<top, bottom, left, right>> given to set_all_margin
MarginArgs ==
    {<<U32(0), U32(0), U32(0), U32(0)>>,
     <<U32(4), U32(0), U32(4), U32(0)>>,
     <<U32(0), U32(0), Big, Big>>,
     <<Big, Big, U32(4), U32(4)>>}

\* <<top, bottom, left, right>> given to set_all_label_area_size
LabelArgs ==
    {<<U32(0), U32(0), U32(0), U32(0)>>,
     <<U32(0), U32(40), U32(40), U32(0)>>,
     <<U32(40), U32(40), U32(40), U32(40)>>}

\* the text given to caption and the text given to replace_caption
CaptionTexts == {"Graph Title"}

ReplaceTexts == {"New Title"}

Font == <<"sans-serif", 40>>

\* what layout_box answers: an error, or a box of height 0, 4, 32 or -4
TextLayouts ==
    {LayoutBoxErr, LayoutBoxOk(0, 0, 0, 0), LayoutBoxOk(0, 0, 30, 4),
     LayoutBoxOk(0, 0, 180, 32), LayoutBoxOk(0, 0, 10, -4)}

(***************************************************************************)
(* The descriptor's life: new(), then any setters                          *)
(***************************************************************************)
NoSurface == [given |-> FALSE]

NoCall == [minimum |-> <<>>, destination |-> <<>>, called |-> FALSE, result |-> <<>>]

Returned(op, arg, out) == [op |-> op, arg |-> arg, out |-> out]

\* a call that returned the descriptor itself (&mut Self, or Self for new)
ReturnedSelf == Returned("ChartLayout", <<>>, Ok("self"))

\* a panic ends the program
Running == ret.out.kind # "panic"

Init ==
    /\ overflow_checks \in BOOLEAN
    /\ layout = new
    /\ builder = NoBuilder
    /\ surface = NoSurface
    /\ ret = ReturnedSelf
    /\ cr = NoCall

\* a setter: it stores and returns the descriptor
Call(op, self) ==
    /\ Running
    /\ layout' = self
    /\ ret' = Returned(op, <<>>, Ok("self"))
    /\ UNCHANGED <<overflow_checks, builder, surface, cr>>

Do_set_all_label_area_size ==
    \E a \in LabelArgs : Call("ChartLayout", set_all_label_area_size(layout, a[1], a[2], a[3], a[4]))

Do_x_label_area_size == \E size \in LabelSizes : Call("ChartLayout", x_label_area_size(layout, size))

Do_y_label_area_size == \E size \in LabelSizes : Call("ChartLayout", y_label_area_size(layout, size))

Do_top_x_label_area_size == \E size \in LabelSizes : Call("ChartLayout", top_x_label_area_size(layout, size))

Do_right_y_label_area_size ==
    \E size \in LabelSizes : Call("ChartLayout", right_y_label_area_size(layout, size))

Do_set_all_margin ==
    \E a \in MarginArgs : Call("ChartLayout", set_all_margin(layout, a[1], a[2], a[3], a[4]))

Do_margin == \E size \in MarginSizes : Call("ChartLayout", margin(layout, size))

Do_margin_top == \E size \in MarginSizes : Call("ChartLayout", margin_top(layout, size))

Do_margin_bottom == \E size \in MarginSizes : Call("ChartLayout", margin_bottom(layout, size))

Do_margin_left == \E size \in MarginSizes : Call("ChartLayout", margin_left(layout, size))

Do_margin_right == \E size \in MarginSizes : Call("ChartLayout", margin_right(layout, size))

Do_no_caption == Call("no_caption", no_caption(layout))

Do_caption ==
    \E text \in CaptionTexts, text_layout \in TextLayouts :
        LET r == caption(layout, overflow_checks, text, Font, text_layout)
        IN  /\ Running
            /\ layout' = r.self
            /\ ret' = IF r.kind = "ok" THEN ReturnedSelf
                      ELSE IF r.kind = "err" THEN Returned("caption", <<>>, Err("FontError"))
                      ELSE Returned("caption", <<>>, Panic)
            /\ UNCHANGED <<overflow_checks, builder, surface, cr>>

Do_replace_caption == \E text \in ReplaceTexts : Call("replace_caption", replace_caption(layout, text))

Next ==
    \/ Do_set_all_label_area_size
    \/ Do_x_label_area_size
    \/ Do_y_label_area_size
    \/ Do_top_x_label_area_size
    \/ Do_right_y_label_area_size
    \/ Do_set_all_margin
    \/ Do_margin
    \/ Do_margin_top
    \/ Do_margin_bottom
    \/ Do_margin_left
    \/ Do_margin_right
    \/ Do_no_caption
    \/ Do_caption
    \/ Do_replace_caption

Spec == Init /\ [][Next]_vars

(***************************************************************************)
(* Using a descriptor: the size queries, bind, and the bound layout.  The  *)
(* descriptor is one that set_all_margin, set_all_label_area_size and      *)
(* caption (or no caption) build from new().                               *)
(***************************************************************************)
MaxPlot == 2

UseMarginArgs ==
    MarginArgs \cup {<<U32(5), U32(10), U32(12), U32(15)>>}

UseLabelArgs ==
    LabelArgs \cup {<<U32(20), U32(25), U32(30), U32(32)>>,
                    <<U32(0), U32(0), U32_MAX, U32(0)>>}

Built(oc, m, l, text_layout) ==
    caption(set_all_label_area_size(set_all_margin(new, m[1], m[2], m[3], m[4]),
                                    l[1], l[2], l[3], l[4]),
            oc, "Graph Title", Font, text_layout).self

\* plot sizes: the small ones, the doctest's, and one wide enough to overflow
PlotSizes ==
    {<<U32(w), U32(h)>> : w \in 1..MaxPlot, h \in 1..MaxPlot}
        \cup {<<U32(200), U32(160)>>, <<Big, U32(1)>>}

ImageWidths == {U32(0), U32(48), U32(100), U32(1280), U32_MAX}

\* aspect ratios 0, 1/2, 3/4, 1, 4 and -1/2
Ratios == {Ratio(0, 1), Ratio(1, 2), Ratio(3, 4), Ratio(1, 1), Ratio(4, 1), Ratio(-1, 2)}

\* root areas: of the size desired_image_size gives for a plot size, or of a
\* fixed size; an area shorter than the title band is not given to bind
FixedRoots == {<<U32(4), U32(50)>>, <<U32(1280), U32(720)>>}

RootAreas(self, oc) ==
    LET desired == {desired_image_size(self, oc, p) : p \in PlotSizes}
        dims == {d.val : d \in {x \in desired : x.kind = "ok"}} \cup FixedRoots
    IN  {Area(d[1], d[2]) : d \in {x \in dims : U32Le(self.title_height, x[2])}}

X_SPEC == Range(IntoT(0), IntoT(20))

Y_SPEC == Range(IntoT(0), IntoT(16))

InitUse ==
    /\ overflow_checks \in BOOLEAN
    /\ layout \in {Built(overflow_checks, m, l, t) :
                       m \in UseMarginArgs, l \in UseLabelArgs, t \in TextLayouts}
    /\ builder = NoBuilder
    /\ surface = NoSurface
    /\ ret = ReturnedSelf
    /\ cr = NoCall

Do_desired_image_size ==
    \E plot_size \in PlotSizes :
        /\ Running
        /\ ret' = Returned("desired_image_size", plot_size,
                           desired_image_size(layout, overflow_checks, plot_size))
        /\ UNCHANGED <<overflow_checks, layout, builder, surface, cr>>

Do_desired_image_height_from_width ==
    \E image_width \in ImageWidths, aspect_ratio \in Ratios :
        /\ Running
        /\ ret' = Returned("desired_image_height_from_width",
                           <<image_width, aspect_ratio>>,
                           desired_image_height_from_width(layout, overflow_checks,
                                                           image_width, aspect_ratio))
        /\ UNCHANGED <<overflow_checks, layout, builder, surface, cr>>

Do_bind ==
    \E root_area \in RootAreas(layout, overflow_checks), draw_ok \in BOOLEAN :
        LET r == bind(layout, root_area, draw_ok)
        IN  /\ Running
            /\ IF r.kind = "ok"
               THEN /\ builder' = r.builder
                    /\ surface' = [given |-> TRUE, area |-> root_area, drawn |-> r.drawn]
                    /\ ret' = Returned("bind", root_area, Ok("ChartLayoutBuilder"))
               ELSE /\ UNCHANGED <<builder, surface>>
                    /\ ret' = Returned("bind", root_area, Err("DrawingAreaErrorKind"))
            /\ UNCHANGED <<overflow_checks, layout, cr>>

Do_estimate_plot_area_size ==
    /\ Running
    /\ builder.bound
    /\ ret' = Returned("estimate_plot_area_size", <<>>,
                       estimate_plot_area_size(builder, overflow_checks))
    /\ UNCHANGED <<overflow_checks, layout, builder, surface, cr>>

\* The chart is built on the main area of the bound layout, whatever its size.
Do_build_cartesian_2d ==
    \E backend_ok \in BOOLEAN :
        /\ Running
        /\ builder.bound
        /\ ret' = Returned("build_cartesian_2d", <<X_SPEC, Y_SPEC>>,
                           build_cartesian_2d(builder, X_SPEC, Y_SPEC, backend_ok))
        /\ UNCHANGED <<overflow_checks, layout, builder, surface, cr>>

\* the size queries on a descriptor
NextQuery ==
    \/ Do_desired_image_size
    \/ Do_desired_image_height_from_width

SpecQuery == InitUse /\ [][NextQuery]_vars

\* the size of the image, bind, and the bound layout
NextUse ==
    \/ Do_desired_image_size
    \/ Do_bind
    \/ Do_estimate_plot_area_size
    \/ Do_build_cartesian_2d

SpecUse == InitUse /\ [][NextUse]_vars

(***************************************************************************)
(* centering_ranges on a minimum rectangle and a destination               *)
(***************************************************************************)
MaxCoord == 2

MaxDest == 3

Coords == {IntoT(c) : c \in (-MaxCoord)..MaxCoord}

MinRects ==
    {<<Range(x0, x1), Range(y0, y1)>> : x0 \in Coords, x1 \in Coords,
                                        y0 \in Coords, y1 \in Coords}
        \cup {<<Range(IntoT(-200), IntoT(200)), Range(IntoT(-100), IntoT(100))>>}

Destinations ==
    {<<w, h>> : w \in 1..MaxDest, h \in 1..MaxDest} \cup {<<1280, 720>>}

InitCentering ==
    /\ overflow_checks \in BOOLEAN
    /\ layout = new
    /\ builder = NoBuilder
    /\ surface = NoSurface
    /\ ret = ReturnedSelf
    /\ cr \in {[minimum |-> m, destination |-> d, called |-> FALSE, result |-> <<>>] :
                  m \in MinRects, d \in Destinations}

Do_centering_ranges ==
    /\ ~cr.called
    /\ cr' = [cr EXCEPT !.called = TRUE,
                        !.result = centering_ranges(cr.minimum, cr.destination)]
    /\ UNCHANGED <<overflow_checks, layout, builder, surface, ret>>

NextCentering == Do_centering_ranges

SpecCentering == InitCentering /\ [][NextCentering]_vars

(***************************************************************************)
(* The claims                                                              *)
(***************************************************************************)
\* the sum of four sizes in the integers: its value when it is a u32, and
\* whether it is one
Sum4(a, b, c, d) == Plus(Plus(Plus(Exact(a), b), c), d)

\* floor(d * num / den) in the integers, for num >= 0: its value modulo 2^32 and
\* whether it is beyond u32
FloorMul(d, r) ==
    LET lo == d[2] * r.num
        hi == (d[1] * r.num) + (lo \div Half)
        hq == hi \div r.den
        lq == (((hi % r.den) * Half) + (lo % Half)) \div r.den
    IN  [val |-> <<hq % Half, lq>>, ovf |-> hq >= Half]

\* C1: for every plot size with both components positive, desired_image_size
\* returns a size, and estimate_plot_area_size on the layout bound to a root
\* area of that size returns exactly the plot size.
C1_RoundTrip ==
    \A p \in PlotSizes :
        /\ (ret.op = "desired_image_size" /\ ret.arg = p) => ret.out.kind = "ok"
        /\ ( /\ ret.op = "estimate_plot_area_size"
             /\ surface.given
             /\ desired_image_size(builder.layout, overflow_checks, p).kind = "ok"
             /\ desired_image_size(builder.layout, overflow_checks, p).val
                    = dim_in_pixel(surface.area) )
           => (ret.out.kind = "ok" /\ ret.out.val = p)

\* C2: on a bound layout whose main area holds its margins and label areas, the
\* plotting area of the chart built by build_cartesian_2d has exactly the pixel
\* size that estimate_plot_area_size returns on the same bound layout.
C2_BuildMatchesEstimate ==
    ( /\ ret.op = "build_cartesian_2d"
      /\ ret.out.kind = "ok"
      /\ BandsFit(builder.main_area, builder.layout.margin,
                  builder.layout.label_area_size) )
        => LET e == estimate_plot_area_size(builder, overflow_checks)
           IN  /\ e.kind = "ok"
               /\ ~e.wrapped
               /\ ret.out.val.plotting_area = e.val

C2_Witness ==
    /\ ret.op = "build_cartesian_2d"
    /\ ret.out.kind = "ok"
    /\ ret.out.val.plotting_area = <<U32(200), U32(160)>>
    /\ BandsFit(builder.main_area, builder.layout.margin,
                builder.layout.label_area_size)
    /\ builder.layout.margin = Array4(U32(5), U32(10), U32(12), U32(15))
    /\ builder.layout.label_area_size = Array4(U32(20), U32(25), U32(30), U32(32))
    /\ builder.layout.title_content.some

\* C3, as stated: title_height is 0 if and only if title_content is None.
C3_ZeroHeightIffNoContent ==
    (layout.title_height = U32_ZERO) <=> ~layout.title_content.some

\* C3, amended: when title_content is None, title_height is 0 (a title band of
\* positive height always has a caption); a caption may have height 0.
C3_NoContentHasZeroHeight ==
    ~layout.title_content.some => layout.title_height = U32_ZERO

C3_Witness ==
    /\ ret.op = "no_caption"
    /\ ~layout.title_content.some
    /\ layout.title_height = U32_ZERO
    /\ layout.margin[INDEX_TOP] = U32(4)

\* C4: for a minimum rectangle with positive spans, the rectangle that
\* centering_ranges returns has x span / y span equal to width / height.
C4_AspectRatio ==
    ( /\ cr.called
      /\ TLt(cr.minimum[1].start, cr.minimum[1].end)
      /\ TLt(cr.minimum[2].start, cr.minimum[2].end) )
        => TDiv(TSub(cr.result[1].end, cr.result[1].start),
                TSub(cr.result[2].end, cr.result[2].start))
             = TDiv(IntoT(cr.destination[1]), IntoT(cr.destination[2]))

C4_Witness ==
    /\ cr.called
    /\ cr.minimum = <<Range(IntoT(0), IntoT(1)), Range(IntoT(-1), IntoT(2))>>
    /\ cr.destination = <<3, 2>>
    /\ cr.result[1] # cr.minimum[1]

\* C5: each range that centering_ranges returns has the midpoint of the minimum
\* range of its axis and a span no smaller than that range's.
C5_CenterAndSpan ==
    cr.called =>
        \A i \in {1, 2} :
            /\ TAdd(cr.result[i].start, cr.result[i].end)
                 = TAdd(cr.minimum[i].start, cr.minimum[i].end)
            /\ ~TLt(TSub(cr.result[i].end, cr.result[i].start),
                    TSub(cr.minimum[i].end, cr.minimum[i].start))

C5_Witness ==
    /\ cr.called
    /\ cr.minimum = <<Range(IntoT(-1), IntoT(2)), Range(IntoT(1), IntoT(2))>>
    /\ cr.destination = <<2, 3>>
    /\ cr.result[2] # cr.minimum[2]

Scenario ==
    /\ cr.called
    /\ cr.minimum = <<Range(IntoT(-200), IntoT(200)), Range(IntoT(-100), IntoT(100))>>
    /\ cr.destination = <<1280, 720>>

\* C6, as stated: for minimum (-200..200, -100..100) and destination (1280, 720)
\* the result is X -200..200 and Y -56.25..56.25.
C6_AsStated ==
    Scenario => cr.result = <<Range(IntoT(-200), IntoT(200)),
                              Range(Frac(-225, 4), Frac(225, 4))>>

\* C6, amended: for that minimum and destination the grow-Y branch is taken and
\* the result is X unchanged, -200..200, and Y -112.5..112.5 (radius 112.5
\* around centre 0).
C6_Scenario ==
    Scenario => cr.result = <<Range(IntoT(-200), IntoT(200)),
                              Range(Frac(-225, 2), Frac(225, 2))>>

C6_Witness == Scenario /\ cr.result[1] = cr.minimum[1]

\* C7: for an aspect ratio that is not negative, desired_image_height_from_width
\* returns additional.height when image_width < additional.width and otherwise
\* floor((image_width - additional.width) * aspect_ratio) + additional.height,
\* with additional.width and additional.height the sums of the sizes.
C7_HeightFromWidth ==
    (ret.op = "desired_image_height_from_width" /\ ret.arg[2].num >= 0)
        => LET m == layout.margin
               l == layout.label_area_size
               width == Sum4(m[INDEX_LEFT], m[INDEX_RIGHT], l[INDEX_LEFT], l[INDEX_RIGHT])
               height == Plus(Sum4(m[INDEX_TOP], m[INDEX_BOTTOM],
                                   l[INDEX_TOP], l[INDEX_BOTTOM]), layout.title_height)
               plot_h == FloorMul(WrappingSub(ret.arg[1], width.val), ret.arg[2])
               total == Plus(plot_h, height.val)
           IN  /\ ret.out.kind = "ok"
               /\ ~height.ovf
               /\ IF width.ovf \/ U32Lt(ret.arg[1], width.val)
                  THEN ret.out.val = height.val
                  ELSE ~total.ovf /\ ret.out.val = total.val

\* the main area is narrower than its left and right bands, or shorter than its
\* top and bottom bands (the sums of the bands being u32 values)
Undersized(area, m, l) ==
    LET bands_w == Sum4(m[INDEX_LEFT], m[INDEX_RIGHT], l[INDEX_LEFT], l[INDEX_RIGHT])
        bands_h == Sum4(m[INDEX_TOP], m[INDEX_BOTTOM], l[INDEX_TOP], l[INDEX_BOTTOM])
    IN  /\ ~bands_w.ovf
        /\ ~bands_h.ovf
        /\ U32Lt(area.w, bands_w.val) \/ U32Lt(area.h, bands_h.val)

\* C8: when the main area is narrower or shorter than its margins and label
\* areas, estimate_plot_area_size does not return a size (it reports an error).
C8_UndersizedReturnsNoSize ==
    ( /\ ret.op = "estimate_plot_area_size"
      /\ Undersized(builder.main_area, builder.layout.margin,
                    builder.layout.label_area_size) )
        => ret.out.kind # "ok"

ReplaceCaptionFrame ==
    /\ layout'.title_height = layout.title_height
    /\ layout'.margin = layout.margin
    /\ layout'.label_area_size = layout.label_area_size
    /\ layout'.title_content.some = layout.title_content.some
    /\ ~layout.title_content.some => layout' = layout
    /\ layout.title_content.some =>
          /\ layout'.title_content.style = layout.title_content.style
          /\ layout'.title_content.y_padding = layout.title_content.y_padding

\* C9: a replace_caption step leaves title_height, the stored padding and style,
\* the margins and the label area sizes as they were; with no caption set it
\* changes nothing, and with one set it changes the text only.
C9_ReplaceCaptionFrame == [][Do_replace_caption => ReplaceCaptionFrame]_vars

C9_Witness ==
    /\ ret.op = "replace_caption"
    /\ layout.title_content.some
    /\ layout.title_content.text = "New Title"
    /\ layout.title_content.y_padding = U32(PaddingCap)
    /\ layout.title_height = U32(42)

\* C10: whatever sizes the descriptor holds, desired_image_size and
\* desired_image_height_from_width return a value, computed without leaving the
\* u32 range.
C10_NoFailureBeforeBind ==
    (ret.op \in {"desired_image_size", "desired_image_height_from_width"})
        => (ret.out.kind = "ok" /\ ~ret.out.wrapped)

====
